---- MODULE Spec2Model ----
(***************************************************************************)
(* Model of the olga-front services pipeline: the content fetch and        *)
(* normalization of getAllServices / getFeaturedServices, the alphabetical *)
(* index of groupServicesByFirstLetter, the ServicesPage view selection    *)
(* and the detail lookup of getServiceBySlug.                              *)
(*                                                                         *)
(* JavaScript values are tagged records [t, v]; strings are sequences of   *)
(* UTF-16 code units.                                                      *)
(***************************************************************************)
EXTENDS Integers, Sequences, FiniteSets, TLC

VARIABLES source, pc, fetched, services, error, groupedServices, view,
          home, linkIndex, detail

\* what ServicesPage shows: the cards of the grid view and the message
VARIABLES grid, message

shown == <<grid, message>>

\* the detail page sections: the section being rendered, the rich-text value
\* and its rendering, the image asset, the requested variant and the src of
\* the <Image>, the price list and its table
VARIABLES dpc, content, richText, asset, variant, src, price_list, priceTable

detailVars == <<dpc, content, richText, asset, variant, src, price_list, priceTable>>

\* the theme: the phase of the page load, localStorage 'theme', the system
\* colour-scheme preference, the dark-theme class and the data-theme attribute
\* of the document element, the React state, the value of that state in the
\* closure of the last render, the theme written by the last click, the
\* counts of clicks and page loads, and the dark class of the document
\* element, which the ThemeToggle of the other variant flips
VARIABLES tpc, savedTheme, prefersDark, darkTheme, dataTheme, isDarkMode,
          renderedDark, lastClick, clicks, loads, darkClass

themeVars == <<tpc, savedTheme, prefersDark, darkTheme, dataTheme, isDarkMode,
               renderedDark, lastClick, clicks, loads, darkClass>>

vars == <<source, pc, fetched, services, error, groupedServices, view,
          home, linkIndex, detail, shown, detailVars, themeVars>>

\* ---------------------------------------------------------------- bounds
MaxId == 2
MaxRecords == 2
MaxServices == 3
MaxRuns == 2
MaxBlocks == 2
MaxEntries == 2
MaxClicks == 3
MaxLoads == 2

\* ------------------------------------------------------ JavaScript values
Undef == [t |-> "undefined", v |-> <<>>]
Null == [t |-> "null", v |-> <<>>]
Str(s) == [t |-> "string", v |-> s]
Arr(a) == [t |-> "array", v |-> a]
Obj(o) == [t |-> "object", v |-> o]
Bool(b) == [t |-> "boolean", v |-> b]

\* ToBoolean: undefined, null and '' are falsy; arrays and objects are truthy
Truthy(x) ==
  CASE x.t = "undefined" -> FALSE
    [] x.t = "null" -> FALSE
    [] x.t = "string" -> x.v # <<>>
    [] x.t = "boolean" -> x.v
    [] OTHER -> TRUE

\* a || b
OrElse(a, b) == IF Truthy(a) THEN a ELSE b

\* ---------------------------------------------------------------- strings
Hash == <<35>>
\* the placeholder title literal (Cyrillic, "Bez nazvaniya")
DefaultTitle == <<1041, 1077, 1079, 32, 1085, 1072, 1079, 1074, 1072, 1085, 1080, 1103>>
\* 'service-'
ServicePrefix == <<115, 101, 114, 118, 105, 99, 101, 45>>
\* the message returned when response.ok is false
ErrNotOk == <<1053, 1077, 32, 1091, 1076, 1072, 1083, 1086, 1089, 1100, 32, 1079, 1072, 1075, 1088, 1091, 1079, 1080, 1090, 1100, 32, 1091, 1089, 1083, 1091, 1075, 1080>>
\* the message returned from the catch block
ErrThrown == <<1055, 1088, 1086, 1080, 1079, 1086, 1096, 1083, 1072, 32, 1086, 1096, 1080, 1073, 1082, 1072, 32, 1087, 1088, 1080, 32, 1079, 1072, 1075, 1088, 1091, 1079, 1082, 1077, 32, 1091, 1089, 1083, 1091, 1075>>

\* `${x}`: a string as it is, undefined and null by their names
TemplateString(x) ==
  CASE x.t = "string" -> x.v
    [] x.t = "undefined" -> <<117, 110, 100, 101, 102, 105, 110, 101, 100>>
    [] x.t = "null" -> <<110, 117, 108, 108>>

RECURSIVE NumberToString(_)
\* `${n}` for a non-negative integer n: its decimal digits
NumberToString(n) ==
  IF n < 10 THEN <<48 + n>> ELSE NumberToString(n \div 10) \o <<48 + (n % 10)>>

\* String.prototype.charAt(i) (0-based): one code unit, or '' out of range
CharAt(s, i) == IF i + 1 <= Len(s) THEN <<s[i + 1]>> ELSE <<>>

\* upper-case mapping of one code unit (basic Latin, sharp s, basic Cyrillic)
UpperUnit(c) ==
  IF c >= 97 /\ c <= 122 THEN <<c - 32>>
  ELSE IF c = 223 THEN <<83, 83>>
  ELSE IF c >= 1072 /\ c <= 1103 THEN <<c - 32>>
  ELSE IF c >= 1104 /\ c <= 1119 THEN <<c - 80>>
  ELSE <<c>>

RECURSIVE ToUpperCase(_)
ToUpperCase(s) ==
  IF s = <<>> THEN <<>> ELSE UpperUnit(Head(s)) \o ToUpperCase(Tail(s))

RECURSIVE StrLess(_, _)
\* a < b by UTF-16 code units, the default comparison of Array.prototype.sort
StrLess(a, b) ==
  IF b = <<>> THEN FALSE
  ELSE IF a = <<>> THEN TRUE
  ELSE IF Head(a) # Head(b) THEN Head(a) < Head(b)
  ELSE StrLess(Tail(a), Tail(b))

\* ------------------------------------------- groupServicesByFirstLetter
\* mutant: the first unit of the title is not upper-cased
FirstLetterAsIs(service) ==
  IF ~Truthy(service.title) THEN Hash ELSE CharAt(service.title.v, 0)

\* the key computed in the forEach body
FirstLetter(service) ==
  IF ~Truthy(service.title) THEN Hash
  ELSE ToUpperCase(CharAt(service.title.v, 0))

HasKey(grouped, k) == \E i \in 1..Len(grouped) : grouped[i].letter = k

\* mutant: the list of the key is reset before every push
PushReset(grouped, k, service) ==
  IF HasKey(grouped, k)
  THEN [i \in 1..Len(grouped) |->
          IF grouped[i].letter = k
          THEN [grouped[i] EXCEPT !.services = <<service>>]
          ELSE grouped[i]]
  ELSE Append(grouped, [letter |-> k, services |-> <<service>>])

\* mutant: unshift written for push
PushFront(grouped, k, service) ==
  IF HasKey(grouped, k)
  THEN [i \in 1..Len(grouped) |->
          IF grouped[i].letter = k
          THEN [grouped[i] EXCEPT !.services = <<service>> \o @]
          ELSE grouped[i]]
  ELSE Append(grouped, [letter |-> k, services |-> <<service>>])

\* grouped[k] = grouped[k] || []; grouped[k].push(service)
\* (the object is a sequence of entries in property creation order)
Push(grouped, k, service) ==
  IF HasKey(grouped, k)
  THEN [i \in 1..Len(grouped) |->
          IF grouped[i].letter = k
          THEN [grouped[i] EXCEPT !.services = Append(@, service)]
          ELSE grouped[i]]
  ELSE Append(grouped, [letter |-> k, services |-> <<service>>])

RECURSIVE ForEachService(_, _)
\* services.forEach(...), left to right
ForEachService(svcs, grouped) ==
  IF svcs = <<>> THEN grouped
  ELSE ForEachService(Tail(svcs), Push(grouped, FirstLetter(Head(svcs)), Head(svcs)))

\* an integer-like property name ('0'..'9' among the one-unit keys)
IsIndexKey(k) == Len(k) = 1 /\ k[1] >= 48 /\ k[1] <= 57

RECURSIVE SelectKeys(_, _)
SelectKeys(grouped, index) ==
  IF grouped = <<>> THEN <<>>
  ELSE IF IsIndexKey(Head(grouped).letter) = index
       THEN <<Head(grouped).letter>> \o SelectKeys(Tail(grouped), index)
       ELSE SelectKeys(Tail(grouped), index)

RECURSIVE Insert(_, _)
Insert(k, sorted) ==
  IF sorted = <<>> THEN <<k>>
  ELSE IF StrLess(k, Head(sorted)) THEN <<k>> \o sorted
  ELSE <<Head(sorted)>> \o Insert(k, Tail(sorted))

RECURSIVE JsSort(_)
\* Array.prototype.sort() with the default comparison
JsSort(keys) ==
  IF keys = <<>> THEN <<>> ELSE Insert(Head(keys), JsSort(Tail(keys)))

\* Object.keys: integer-like keys ascending, then the others in creation order
ObjectKeys(grouped) ==
  JsSort(SelectKeys(grouped, TRUE)) \o SelectKeys(grouped, FALSE)

\* grouped[letter]
Lookup(grouped, k) ==
  (CHOOSE e \in {grouped[i] : i \in 1..Len(grouped)} : e.letter = k).services

\* mutant: the .sort() call is missing
UnsortedKeys(grouped) == ObjectKeys(grouped)

\* Object.keys(grouped).sort()
SortedKeys(grouped) == JsSort(ObjectKeys(grouped))

groupServicesByFirstLetter(svcs) ==
  LET grouped == ForEachService(svcs, <<>>)
      keys == SortedKeys(grouped)
  IN [i \in 1..Len(keys) |-> [letter |-> keys[i], services |-> Lookup(grouped, keys[i])]]

\* ------------------------------------------------------- normalization
\* property read o.f on a non-null object
Get(o, f) == o.v[f]

\* item.attributes || item
ServiceData(item) == OrElse(Get(item, "attributes"), item)

\* mutant: the id is left out of the synthesized slug
DefaultSlugNoId(id) == ServicePrefix

\* `service-${item.id}`
DefaultSlug(id) == ServicePrefix \o NumberToString(id)

\* mutant: the slug is synthesized even when the source has one
normalizeItemSynthSlug(item) ==
  LET serviceData == ServiceData(item)
  IN [id |-> Get(item, "id"),
      title |-> OrElse(Get(serviceData, "title"), Str(DefaultTitle)),
      description |-> OrElse(Get(serviceData, "description"), Str(<<>>)),
      slug |-> Str(DefaultSlug(Get(item, "id"))),
      image |-> OrElse(Get(serviceData, "image"), Arr(<<>>))]

\* the callback of data.data.map
normalizeItem(item) ==
  LET serviceData == ServiceData(item)
  IN [id |-> Get(item, "id"),
      title |-> OrElse(Get(serviceData, "title"), Str(DefaultTitle)),
      description |-> OrElse(Get(serviceData, "description"), Str(<<>>)),
      slug |-> OrElse(Get(serviceData, "slug"), Str(DefaultSlug(Get(item, "id")))),
      image |-> OrElse(Get(serviceData, "image"), Arr(<<>>))]

\* reading item.attributes of null or undefined raises a TypeError
ItemThrows(item) == item.t \in {"null", "undefined"}

MapThrows(data) == \E i \in 1..Len(data) : ItemThrows(data[i])

\* mutant: the records are normalized back to front
MapNormalizeReversed(data) ==
  [i \in 1..Len(data) |-> normalizeItem(data[Len(data) + 1 - i])]

MapNormalize(data) == [i \in 1..Len(data) |-> normalizeItem(data[i])]

FetchOutcomes == {"throw", "notok", "ok"}

\* getAllServices, given how the fetch ended and the records it delivered
getAllServices(outcome, data) ==
  IF outcome = "throw" THEN [services |-> <<>>, error |-> Str(ErrThrown)]
  ELSE IF outcome = "notok" THEN [services |-> <<>>, error |-> Str(ErrNotOk)]
  ELSE IF MapThrows(data) THEN [services |-> <<>>, error |-> Str(ErrThrown)]
  ELSE [services |-> MapNormalize(data), error |-> Null]

\* Array.prototype.slice(0, n)
Slice0(a, n) == SubSeq(a, 1, IF Len(a) < n THEN Len(a) ELSE n)

FeaturedLimit == 3

\* getFeaturedServices: the same normalization, limited to three services
getFeaturedServices(outcome, data) ==
  IF outcome = "throw" THEN [services |-> <<>>, error |-> Str(ErrThrown)]
  ELSE IF outcome = "notok" THEN [services |-> <<>>, error |-> Str(ErrNotOk)]
  ELSE IF MapThrows(data) THEN [services |-> <<>>, error |-> Str(ErrThrown)]
  ELSE [services |-> Slice0(MapNormalize(data), FeaturedLimit), error |-> Null]

\* ------------------------------------------------------ getServiceBySlug
\* the slug the content source stores for a record: in the attributes
\* wrapper when the record has one, at the top level otherwise
StoredSlug(r) ==
  IF r.t # "object" THEN Undef
  ELSE IF Get(r, "attributes").t = "object" THEN Get(Get(r, "attributes"), "slug")
  ELSE Get(r, "slug")

RECURSIVE FilterBySlug(_, _)
\* the response to filters[slug][$eq]=slug, in source order
FilterBySlug(records, slug) ==
  IF records = <<>> THEN <<>>
  ELSE IF StoredSlug(Head(records)) = Str(slug)
       THEN <<Head(records)>> \o FilterBySlug(Tail(records), slug)
       ELSE FilterBySlug(Tail(records), slug)

\* mutant: the last record of the response is returned
getServiceBySlugLast(outcome, data) ==
  IF outcome # "ok" THEN Null
  ELSE IF Len(data) = 0 THEN Null
  ELSE data[Len(data)]

getServiceBySlug(outcome, data) ==
  IF outcome # "ok" THEN Null
  ELSE IF Len(data) = 0 THEN Null
  ELSE data[1]

\* mutant: the empty-list test comes before the error test
SelectViewEmptyFirst(err, svcs) ==
  IF Len(svcs) = 0 THEN "empty" ELSE IF Truthy(err) THEN "error" ELSE "list"

\* the view ServicesPage selects
SelectView(err, svcs) ==
  IF Truthy(err) THEN "error" ELSE IF Len(svcs) = 0 THEN "empty" ELSE "list"

\* the message of the empty view (Cyrillic, "Uslugi ne naideny")
EmptyMessage == <<1059, 1089, 1083, 1091, 1075, 1080, 32, 1085, 1077, 32, 1085, 1072, 1081, 1076, 1077, 1085, 1099>>

\* the text ServicesPage shows instead of the services
Message(err, svcs) ==
  LET v == SelectView(err, svcs)
  IN IF v = "error" THEN err.v ELSE IF v = "empty" THEN EmptyMessage ELSE <<>>

\* '/services/'
ServicesPath == <<47, 115, 101, 114, 118, 105, 99, 101, 115, 47>>

\* one card of the grid view
Card(service) ==
  [key |-> service.id, title |-> service.title, description |-> service.description,
   href |-> ServicesPath \o TemplateString(service.slug)]

\* services.map(...) of the grid view, rendered in the list view only
Grid(err, svcs) ==
  IF SelectView(err, svcs) = "list" THEN [i \in 1..Len(svcs) |-> Card(svcs[i])] ELSE <<>>

\* -------------------------------------------------------- renderRichText
\* 'paragraph'
Paragraph == <<112, 97, 114, 97, 103, 114, 97, 112, 104>>

\* the outcome of an evaluation that raised a TypeError
Thrown == [t |-> "throw", v |-> <<>>]

\* a React element
Element(tag, key, children) == [tag |-> tag, key |-> key, children |-> children]

\* the callback of block.children.map (childIndex is 0-based)
renderChild(child, childIndex) ==
  LET text == Get(child, "text")
  IN IF Truthy(Get(child, "bold")) THEN Element("strong", childIndex, <<text>>)
     ELSE IF Truthy(Get(child, "italic")) THEN Element("em", childIndex, <<text>>)
     ELSE Element("span", childIndex, <<text>>)

\* block.children.map(...) raises unless children is an array of objects
ChildrenThrow(block) ==
  \/ Get(block, "children").t # "array"
  \/ \E j \in 1..Len(Get(block, "children").v) : Get(block, "children").v[j].t # "object"

\* reading block.type of null or undefined raises
BlockThrows(block) ==
  \/ block.t \in {"null", "undefined"}
  \/ (Get(block, "type") = Str(Paragraph) /\ ChildrenThrow(block))

\* mutant: every block is rendered as a paragraph
renderBlockAnyType(block, blockIndex) ==
  IF Get(block, "children").t = "array"
  THEN Element("p", blockIndex,
               [j \in 1..Len(Get(block, "children").v) |->
                  renderChild(Get(block, "children").v[j], j - 1)])
  ELSE Thrown

\* the callback of content.map (blockIndex is 0-based)
renderBlock(block, blockIndex) ==
  IF Get(block, "type") = Str(Paragraph)
  THEN Element("p", blockIndex,
               [j \in 1..Len(Get(block, "children").v) |->
                  renderChild(Get(block, "children").v[j], j - 1)])
  ELSE Null

\* mutant: the Array.isArray test is missing, so that .map is called on any
\* truthy value
renderRichTextNoArrayTest(c) ==
  IF ~Truthy(c) THEN Null
  ELSE IF c.t # "array" THEN Thrown
  ELSE IF \E i \in 1..Len(c.v) : BlockThrows(c.v[i]) THEN Thrown
  ELSE Element("div", 0, [i \in 1..Len(c.v) |-> renderBlock(c.v[i], i - 1)])

renderRichText(c) ==
  IF ~Truthy(c) \/ c.t # "array" THEN Null
  ELSE IF \E i \in 1..Len(c.v) : BlockThrows(c.v[i]) THEN Thrown
  ELSE Element("div", 0, [i \in 1..Len(c.v) |-> renderBlock(c.v[i], i - 1)])

\* what React shows of an element's children: null renders nothing
Nodes(element) == SelectSeq(element.children, LAMBDA n : n # Null)

\* ------------------------------------------------- rich-text values
Run(text, bold, italic) == Obj([text |-> text, bold |-> bold, italic |-> italic])
Runs ==
  {Run(text, bold, italic) : text \in {Str(<<>>), Str(<<72, 105>>)},
     bold \in {Undef, Bool(TRUE)}, italic \in {Bool(FALSE), Bool(TRUE)}}

Block(type, children) == Obj([type |-> type, children |-> children])
Paragraphs == {Block(Str(Paragraph), Arr(c)) : c \in UNION {[1..k -> Runs] : k \in 0..MaxRuns}}

\* blocks of another type, with and without a children field
OtherBlocks ==
  {Block(Str(<<108, 105, 115, 116>>), Undef),
   Block(Undef, Undef),
   Block(Str(<<108, 105, 115, 116>>), Arr(<<Run(Str(<<72, 105>>), Undef, Undef)>>))}

\* blocks the renderer cannot read: a paragraph without children, a null block
BadBlocks == {Block(Str(Paragraph), Undef), Null}

SmallBlocks ==
  OtherBlocks \cup BadBlocks \cup
  {Block(Str(Paragraph), Arr(<<>>)),
   Block(Str(Paragraph), Arr(<<Run(Str(<<72, 105>>), Bool(TRUE), Bool(TRUE))>>)),
   Block(Str(Paragraph), Arr(<<Run(Str(<<72, 105>>), Bool(TRUE), Undef),
                               Run(Str(<<>>), Undef, Undef)>>))}

Contents ==
  {Undef, Null, Str(<<>>), Str(<<72, 105>>), Bool(TRUE), Obj([type |-> Str(Paragraph)])}
    \cup {Arr(<<b>>) : b \in Paragraphs}
    \cup {Arr(bs) : bs \in UNION {[1..k -> SmallBlocks] : k \in 0..MaxBlocks}}

\* ------------------------------------------------ the image of a service
\* 'https://startrixbot.ru'
Host == <<104, 116, 116, 112, 115, 58, 47, 47, 115, 116, 97, 114, 116, 114, 105, 120, 98, 111, 116, 46, 114, 117>>

\* o?.f: undefined when o is null or undefined
OptGet(o, f) == IF o.t \in {"null", "undefined"} THEN Undef ELSE Get(o, f)

\* mutant: ?? written for ||, so that an empty variant URL is kept
DisplayUrlNullish(a, size) ==
  LET u == OptGet(OptGet(a.formats, size), "url")
  IN IF u.t \in {"null", "undefined"} THEN a.url ELSE u

\* image.formats?.<size>?.url || image.url
DisplayUrl(a, size) == OrElse(OptGet(OptGet(a.formats, size), "url"), a.url)

\* the src of the <Image>
ImageSrc(a, size) == Host \o TemplateString(DisplayUrl(a, size))

\* the variants the pages ask for: catalog row, grid card, detail page
Variants == {"thumbnail", "medium", "large"}

VariantVals == {Undef, Null, Obj([url |-> Undef]), Obj([url |-> Str(<<>>)]),
                Obj([url |-> Str(<<47, 118>>)])}
FormatsVals ==
  {Undef, Null} \cup
  {Obj(f) : f \in [thumbnail : VariantVals, medium : VariantVals, large : VariantVals]}
ImageAssets == [url : {Str(<<47, 105>>), Str(<<>>), Undef}, formats : FormatsVals]

\* ------------------------------------------------------- the price table
Dash == <<45>>

\* mutant: the value is shown without the placeholder
CellRaw(x) == x

\* {price.f || '-'}
Cell(x) == OrElse(x, Str(Dash))

PriceRow(price) ==
  [key |-> Get(price, "id"),
   cells |-> <<Cell(Get(price, "name")), Cell(Get(price, "description")),
               Cell(Get(price, "unit")), Cell(Get(price, "duration"))>>]

\* mutant: the name of the first entry is not tested
TableShownNonEmpty(list) ==
  Truthy(list) /\ Len(list.v) > 0

\* service.price_list && service.price_list.length > 0 && service.price_list[0].name
TableShown(list) ==
  Truthy(list) /\ Len(list.v) > 0 /\ Truthy(Get(list.v[1], "name"))

\* the rows of the price table, null when the table is not rendered
PriceTable(list) ==
  IF TableShown(list) THEN Arr([i \in 1..Len(list.v) |-> PriceRow(list.v[i])]) ELSE Null

Entry(id, name, description, unit, duration) ==
  Obj([id |-> id, name |-> name, description |-> description, unit |-> unit,
       duration |-> duration])
FieldVals == {Undef, Str(<<>>), Str(<<120>>)}
Entries == {Entry(1, n, d, u, t) : n \in FieldVals, d \in FieldVals, u \in FieldVals, t \in FieldVals}
SmallEntries ==
  {Entry(id, n, Str(<<120>>), u, Undef) :
     id \in {1}, n \in {Str(<<>>), Str(<<120>>)}, u \in FieldVals}
PriceLists ==
  {Undef, Null} \cup {Arr(<<e>>) : e \in Entries}
    \cup {Arr(es) : es \in UNION {[1..k -> SmallEntries] : k \in 0..MaxEntries}}

\* no detail section is being rendered
DetailIdle ==
  /\ dpc = "none"
  /\ content = Undef
  /\ richText = Null
  /\ asset = [url |-> Undef, formats |-> Undef]
  /\ variant = "medium"
  /\ src = <<>>
  /\ price_list = Undef
  /\ priceTable = Null

\* ------------------------------------------------------------ the theme
\* the test of the inline script of RootLayout
ScriptDark(saved, prefers) == saved = "dark" \/ (saved = "none" /\ prefers)

\* mutant: a saved light theme does not override the system preference
EffectDarkIgnoresLight(saved, prefers) == saved = "dark" \/ prefers

\* the test of the mount effect of ThemeToggle
EffectDark(saved, prefers) == saved = "dark" \/ (saved = "none" /\ prefers)

ThemeName(isDark) == IF isDark THEN "dark" ELSE "light"

\* mutant: the class is flipped with classList.toggle instead of being set
ClassAfterToggleFlipped(class, rendered) == ~class

\* the dark-theme class after toggleTheme: removed when the closure saw dark
\* mode, added otherwise
ClassAfterToggle(class, rendered) == ~rendered

\* classList.toggle(token, force): the token is present iff force
ClassListToggleForce(present, force) == force

\* classList.toggle(token): the token is present iff it was absent
ClassListToggle(present) == ~present

\* no page with a ThemeToggle is open
ThemeIdle ==
  /\ tpc = "none"
  /\ savedTheme = "none"
  /\ prefersDark = FALSE
  /\ darkTheme = FALSE
  /\ dataTheme = "none"
  /\ isDarkMode = FALSE
  /\ renderedDark = FALSE
  /\ lastClick = "none"
  /\ clicks = 0
  /\ loads = 0
  /\ darkClass = FALSE

\* ------------------------------------------------- the content source
\* one image asset of the content source
Asset == [url |-> Str(<<47, 105>>), formats |-> Undef]

TitleVals == {Undef, Str(<<>>), Str(<<66>>), Str(<<1073, 1072>>)}
DescVals == {Undef, Str(<<100>>)}
SlugVals == {Undef, Str(<<>>), Str(<<97>>), Str(ServicePrefix \o <<49>>)}
ImageVals == {Undef, Arr(<<>>), Arr(<<Asset>>), Str(<<120>>), Obj(Asset)}

Fields == [title : TitleVals, description : DescVals, slug : SlugVals, image : ImageVals]
NoFields == [title |-> Undef, description |-> Undef, slug |-> Undef, image |-> Undef]
FullFields == [title |-> Str(<<66>>), description |-> Str(<<100>>),
               slug |-> Str(<<97>>), image |-> Arr(<<Asset>>)]

\* a record of the payload: its id, its attributes wrapper, its top-level fields
Record(id, attributes, f) ==
  Obj([id |-> id, attributes |-> attributes, title |-> f.title,
       description |-> f.description, slug |-> f.slug, image |-> f.image])

FlatRecords == {Record(id, a, f) : id \in 1..MaxId, a \in {Undef, Null}, f \in Fields}
WrappedRecords ==
  {Record(id, Obj(w), f) : id \in 1..MaxId, w \in Fields, f \in {NoFields, FullFields}}
RawRecords == {Null} \cup FlatRecords \cup WrappedRecords

\* the records combined into batches
BatchFields ==
  [title : {Undef, Str(<<66>>)}, description : {Str(<<100>>)},
   slug : {Undef, Str(<<97>>), Str(ServicePrefix \o <<49>>)}, image : {Arr(<<>>)}]
BatchRecords ==
  {Null} \cup {Record(id, Undef, f) : id \in 1..MaxId, f \in BatchFields}
         \cup {Record(id, Obj(w), NoFields) : id \in 1..MaxId,
                 w \in {f \in BatchFields : f.title = Undef /\ f.slug # Str(<<97>>)}}

SeqsUpTo(S, n) == UNION {[1..k -> S] : k \in 0..n}

LongRecords == {Record(1, Undef, FullFields), Record(2, Obj(NoFields), NoFields)}

Payloads ==
  {<<r>> : r \in RawRecords} \cup SeqsUpTo(BatchRecords, MaxRecords)
    \cup [1..(FeaturedLimit + 1) -> LongRecords]

\* services as groupServicesByFirstLetter may receive them
GroupTitles ==
  {Undef, Null, Str(<<>>), Str(<<35, 49>>), Str(<<49>>), Str(<<98>>), Str(<<66, 97>>),
   Str(<<223>>), Str(<<1073, 1072>>), Str(<<1040>>)}
GroupServices ==
  {[id |-> id, title |-> t, description |-> Str(<<>>),
    slug |-> Str(DefaultSlug(id)), image |-> Arr(<<>>)] : id \in 1..MaxId, t \in GroupTitles}

NoResult == [fetched |-> "none", services |-> <<>>, error |-> Null]

\* ---------------------------------------------------------------- state
TypeOK ==
  /\ pc \in {"idle", "loaded", "rendered", "detail", "args", "grouped"}
  /\ fetched \in FetchOutcomes \cup {"none"}
  /\ view \in {"none", "error", "empty", "list"}
  /\ linkIndex \in 0..Len(services)

Init ==
  /\ source \in Payloads
  /\ pc = "idle"
  /\ fetched = "none"
  /\ services = <<>>
  /\ error = Null
  /\ groupedServices = <<>>
  /\ view = "none"
  /\ home = NoResult
  /\ linkIndex = 0
  /\ detail = [fetched |-> "none", service |-> Null, notFound |-> FALSE]
  /\ grid = <<>>
  /\ message = <<>>
  /\ ThemeIdle
  /\ DetailIdle

\* ServicesPage up to the resolution of `await getAllServices()`
GetAllServices ==
  /\ pc = "idle"
  /\ \E outcome \in FetchOutcomes :
       LET r == getAllServices(outcome, source)
       IN /\ fetched' = outcome
          /\ services' = r.services
          /\ error' = r.error
  /\ pc' = "loaded"
  /\ UNCHANGED <<source, groupedServices, view, home, linkIndex, detail>>
  /\ UNCHANGED <<shown, detailVars, themeVars>>

\* the rest of ServicesPage: group the services and select the view
ServicesPage ==
  /\ pc = "loaded"
  /\ groupedServices' = groupServicesByFirstLetter(services)
  /\ view' = SelectView(error, services)
  /\ grid' = Grid(error, services)
  /\ message' = Message(error, services)
  /\ pc' = "rendered"
  /\ UNCHANGED <<source, fetched, services, error, home, linkIndex, detail>>
  /\ UNCHANGED <<detailVars, themeVars>>

\* Home: getFeaturedServices over the same content source
Home ==
  /\ \E outcome \in FetchOutcomes :
       LET r == getFeaturedServices(outcome, source)
       IN home' = [fetched |-> outcome, services |-> r.services, error |-> r.error]
  /\ UNCHANGED <<source, pc, fetched, services, error, groupedServices, view,
                 linkIndex, detail>>
  /\ UNCHANGED <<shown, detailVars, themeVars>>

\* following the link /services/<slug> of the i-th card: ServicePage
ServicePage ==
  /\ pc = "rendered"
  /\ view = "list"
  /\ \E i \in 1..Len(services), outcome \in FetchOutcomes :
       LET slug == services[i].slug.v
           service == getServiceBySlug(outcome, FilterBySlug(source, slug))
       IN /\ linkIndex' = i
          /\ detail' = [fetched |-> outcome, service |-> service,
                        notFound |-> ~Truthy(service)]
  /\ pc' = "detail"
  /\ UNCHANGED <<source, fetched, services, error, groupedServices, view, home>>
  /\ UNCHANGED <<shown, detailVars, themeVars>>

Next == GetAllServices \/ ServicesPage \/ Home \/ ServicePage

Spec == Init /\ [][Next]_vars

\* -------------------------- groupServicesByFirstLetter as a pure function
InitGroup ==
  /\ source = <<>>
  /\ pc = "args"
  /\ fetched = "none"
  /\ services \in SeqsUpTo(GroupServices, MaxServices)
  /\ error = Null
  /\ groupedServices = <<>>
  /\ view = "none"
  /\ home = NoResult
  /\ linkIndex = 0
  /\ detail = [fetched |-> "none", service |-> Null, notFound |-> FALSE]
  /\ grid = <<>>
  /\ message = <<>>
  /\ ThemeIdle
  /\ DetailIdle

Group ==
  /\ pc = "args"
  /\ groupedServices' = groupServicesByFirstLetter(services)
  /\ pc' = "grouped"
  /\ UNCHANGED <<source, fetched, services, error, view, home, linkIndex, detail>>
  /\ UNCHANGED <<shown, detailVars, themeVars>>

NextGroup == Group

SpecGroup == InitGroup /\ [][NextGroup]_vars

\* ------------------------------- the sections of the detail page
InitRich ==
  /\ dpc = "rich"
  /\ content \in Contents
  /\ richText = Null
  /\ asset = [url |-> Undef, formats |-> Undef]
  /\ variant = "medium"
  /\ src = <<>>
  /\ price_list = Undef
  /\ priceTable = Null

InitImage ==
  /\ dpc = "image"
  /\ content = Undef
  /\ richText = Null
  /\ asset \in ImageAssets
  /\ variant \in Variants
  /\ src = <<>>
  /\ price_list = Undef
  /\ priceTable = Null

InitPrice ==
  /\ dpc = "price"
  /\ content = Undef
  /\ richText = Null
  /\ asset = [url |-> Undef, formats |-> Undef]
  /\ variant = "medium"
  /\ src = <<>>
  /\ price_list \in PriceLists
  /\ priceTable = Null

InitDetail ==
  /\ source = <<>>
  /\ pc = "detail"
  /\ fetched = "none"
  /\ services = <<>>
  /\ error = Null
  /\ groupedServices = <<>>
  /\ view = "none"
  /\ home = NoResult
  /\ linkIndex = 0
  /\ detail = [fetched |-> "ok", service |-> Null, notFound |-> FALSE]
  /\ grid = <<>>
  /\ message = <<>>
  /\ ThemeIdle
  /\ (InitRich \/ InitImage \/ InitPrice)

pageVars == <<source, pc, fetched, services, error, groupedServices, view,
              home, linkIndex, detail, shown>>

\* renderRichText(service.indications) and its two siblings
RenderRichText ==
  /\ dpc = "rich"
  /\ richText' = renderRichText(content)
  /\ dpc' = "rich-done"
  /\ UNCHANGED <<pageVars, themeVars, content, asset, variant, src, price_list, priceTable>>

\* the <Image> of the first image of a service
RenderImage ==
  /\ dpc = "image"
  /\ src' = ImageSrc(asset, variant)
  /\ dpc' = "image-done"
  /\ UNCHANGED <<pageVars, themeVars, content, richText, asset, variant, price_list, priceTable>>

\* the price list section of ServicePage
RenderPriceList ==
  /\ dpc = "price"
  /\ priceTable' = PriceTable(price_list)
  /\ dpc' = "price-done"
  /\ UNCHANGED <<pageVars, themeVars, content, richText, asset, variant, src, price_list>>

NextDetail == RenderRichText \/ RenderImage \/ RenderPriceList

SpecDetail == InitDetail /\ [][NextDetail]_vars

\* ------------------------------------------ the theme across page loads
InitTheme ==
  /\ source = <<>>
  /\ pc = "idle"
  /\ fetched = "none"
  /\ services = <<>>
  /\ error = Null
  /\ groupedServices = <<>>
  /\ view = "none"
  /\ home = NoResult
  /\ linkIndex = 0
  /\ detail = [fetched |-> "none", service |-> Null, notFound |-> FALSE]
  /\ grid = <<>>
  /\ message = <<>>
  /\ DetailIdle
  /\ tpc = "loading"
  /\ savedTheme \in {"none", "light", "dark"}
  /\ prefersDark \in BOOLEAN
  /\ darkTheme = FALSE
  /\ dataTheme = "none"
  /\ isDarkMode = FALSE
  /\ renderedDark = FALSE
  /\ lastClick = "none"
  /\ clicks = 0
  /\ loads = 1
  /\ darkClass = FALSE

\* the inline script in <head>, before the page is shown
LayoutScript ==
  /\ tpc = "loading"
  /\ darkTheme' = ScriptDark(savedTheme, prefersDark)
  /\ dataTheme' = ThemeName(ScriptDark(savedTheme, prefersDark))
  /\ tpc' = "scripted"
  /\ UNCHANGED <<pageVars, detailVars, savedTheme, prefersDark, isDarkMode,
                 renderedDark, lastClick, clicks, loads, darkClass>>

\* the useEffect of ThemeToggle, once after the first render
MountEffect ==
  /\ tpc = "scripted"
  /\ isDarkMode' = EffectDark(savedTheme, prefersDark)
  /\ darkTheme' = EffectDark(savedTheme, prefersDark)
  /\ dataTheme' = ThemeName(EffectDark(savedTheme, prefersDark))
  /\ tpc' = "mounted"
  /\ UNCHANGED <<pageVars, detailVars, savedTheme, prefersDark, renderedDark,
                 lastClick, clicks, loads, darkClass>>

\* React renders ThemeToggle again with the current state
Rerender ==
  /\ tpc = "mounted"
  /\ renderedDark # isDarkMode
  /\ renderedDark' = isDarkMode
  /\ UNCHANGED <<pageVars, detailVars, tpc, savedTheme, prefersDark, darkTheme,
                 dataTheme, isDarkMode, lastClick, clicks, loads, darkClass>>

\* a click on the button: toggleTheme of the last render
ToggleTheme ==
  /\ tpc = "mounted"
  /\ clicks < MaxClicks
  /\ darkTheme' = ClassAfterToggle(darkTheme, renderedDark)
  /\ dataTheme' = ThemeName(~renderedDark)
  /\ savedTheme' = ThemeName(~renderedDark)
  /\ isDarkMode' = ~renderedDark
  /\ lastClick' = ThemeName(~renderedDark)
  /\ clicks' = clicks + 1
  /\ UNCHANGED <<pageVars, detailVars, tpc, prefersDark, renderedDark, loads, darkClass>>

\* the visitor leaves and opens a page again: a new document, a new component
Reload ==
  /\ tpc = "mounted"
  /\ loads < MaxLoads
  /\ tpc' = "loading"
  /\ darkTheme' = FALSE
  /\ dataTheme' = "none"
  /\ isDarkMode' = FALSE
  /\ renderedDark' = FALSE
  /\ darkClass' = FALSE
  /\ loads' = loads + 1
  /\ UNCHANGED <<pageVars, detailVars, savedTheme, prefersDark, lastClick, clicks>>

\* the system colour-scheme preference changes
PreferenceChange ==
  /\ prefersDark' = ~prefersDark
  /\ UNCHANGED <<pageVars, detailVars, tpc, savedTheme, darkTheme, dataTheme,
                 isDarkMode, renderedDark, lastClick, clicks, loads, darkClass>>

NextTheme ==
  LayoutScript \/ MountEffect \/ Rerender \/ ToggleTheme \/ Reload \/ PreferenceChange

SpecTheme == InitTheme /\ [][NextTheme]_vars

\* ------------------- the ThemeToggle that flips the dark class, by itself
\* the useEffect of this ThemeToggle, once after the first render
MountEffectDark ==
  /\ tpc = "scripted"
  /\ isDarkMode' = EffectDark(savedTheme, prefersDark)
  /\ darkClass' = ClassListToggleForce(darkClass, EffectDark(savedTheme, prefersDark))
  /\ tpc' = "mounted"
  /\ UNCHANGED <<pageVars, detailVars, savedTheme, prefersDark, darkTheme,
                 dataTheme, renderedDark, lastClick, clicks, loads>>

\* a click on the button: toggleTheme of the last render
ToggleThemeDark ==
  /\ tpc = "mounted"
  /\ clicks < MaxClicks
  /\ isDarkMode' = ~renderedDark
  /\ savedTheme' = ThemeName(~renderedDark)
  /\ darkClass' = ClassListToggle(darkClass)
  /\ lastClick' = ThemeName(~renderedDark)
  /\ clicks' = clicks + 1
  /\ UNCHANGED <<pageVars, detailVars, tpc, prefersDark, darkTheme, dataTheme,
                 renderedDark, loads>>

NextToggle ==
  LayoutScript \/ MountEffectDark \/ Rerender \/ ToggleThemeDark \/ Reload
    \/ PreferenceChange

SpecToggle == InitTheme /\ [][NextToggle]_vars

\* ================================================================ claims
Range(f) == {f[i] : i \in DOMAIN f}
Count(x, f) == Cardinality({i \in DOMAIN f : f[i] = x})

RECURSIVE SumOfLengths(_)
SumOfLengths(groups) ==
  IF groups = <<>> THEN 0 ELSE Len(Head(groups).services) + SumOfLengths(Tail(groups))

RECURSIVE CountInGroups(_, _)
CountInGroups(x, groups) ==
  IF groups = <<>> THEN 0
  ELSE Count(x, Head(groups).services) + CountInGroups(x, Tail(groups))

GroupsHolding(x, groups) ==
  {g \in 1..Len(groups) : x \in Range(groups[g].services)}

\* C1: the groups returned by groupServicesByFirstLetter partition the input:
\* the member counts sum to the input length, and every input service lies in
\* exactly one group, as often as it occurs in the input.
C1_Partition ==
  pc = "grouped" =>
    /\ SumOfLengths(groupedServices) = Len(services)
    /\ \A x \in Range(services) :
         /\ Cardinality(GroupsHolding(x, groupedServices)) = 1
         /\ CountInGroups(x, groupedServices) = Count(x, services)

\* three services, two of them sharing a group
C1_Witness ==
  /\ pc = "grouped"
  /\ Len(services) = 3
  /\ Len(groupedServices) = 2
  /\ \E g \in 1..2 : Len(groupedServices[g].services) = 2
       /\ groupedServices[g].services[1] # groupedServices[g].services[2]

\* a precedes b in UTF-16 code-unit order
CodeUnitBefore(a, b) ==
  \E k \in 1..(Len(b)) :
    /\ \A j \in 1..(k - 1) : j <= Len(a) /\ a[j] = b[j]
    /\ (k > Len(a) \/ a[k] < b[k])

\* C2: the letter keys of the returned groups are pairwise distinct and the
\* groups appear in strictly ascending code-unit order of their key.
C2_DistinctAscending ==
  pc = "grouped" =>
    \A i, j \in 1..Len(groupedServices) :
      i < j => /\ groupedServices[i].letter # groupedServices[j].letter
               /\ CodeUnitBefore(groupedServices[i].letter, groupedServices[j].letter)

\* three groups whose keys were created in another order than the sorted one,
\* one of them the two-unit key 'SS'
C2_Witness ==
  /\ pc = "grouped"
  /\ Len(groupedServices) = 3
  /\ FirstLetter(services[1]) = groupedServices[3].letter
  /\ \E g \in 1..3 : groupedServices[g].letter = <<83, 83>>

\* the title counts as absent: '', null or undefined
NoTitle(service) ==
  service.title.t \in {"undefined", "null"} \/ service.title = Str(<<>>)

\* C10: a service whose title is '', null or undefined gets the key '#', any
\* other service the upper-cased first character of its title, and every
\* member of a group has exactly that group's key.
C10_GroupKey ==
  pc = "grouped" =>
    \A g \in 1..Len(groupedServices) :
      \A x \in Range(groupedServices[g].services) :
        groupedServices[g].letter =
          IF NoTitle(x) THEN <<35>> ELSE ToUpperCase(<<x.title.v[1]>>)

\* a null title under '#', and a lower-case Cyrillic title under its capital
C10_Witness ==
  /\ pc = "grouped"
  /\ \E g, h \in 1..Len(groupedServices) :
       /\ groupedServices[g].letter = <<35>>
       /\ \E x \in Range(groupedServices[g].services) : x.title = Null
       /\ groupedServices[h].letter = <<1041>>
       /\ \E x \in Range(groupedServices[h].services) : x.title = Str(<<1073, 1072>>)

\* the listing got its payload and normalized it
Delivered == pc \in {"loaded", "rendered", "detail"} /\ fetched = "ok"

\* the normalized batches: of the services page, and of the home page
Batches ==
  (IF Delivered THEN {services} ELSE {}) \cup
  (IF home.fetched = "ok" THEN {home.services} ELSE {})

HasWrapper(r) == Get(r, "attributes").t = "object"

\* field f is absent or empty wherever the record could carry it
Missing(r, f) ==
  /\ r.t = "object"
  /\ ~Truthy(Get(r, f))
  /\ HasWrapper(r) => ~Truthy(Get(Get(r, "attributes"), f))

InHashGroup(x, groups) ==
  \E g \in 1..Len(groups) : groups[g].letter = <<35>> /\ x \in Range(groups[g].services)

\* C3: a raw record without title gets the placeholder title and, after
\* grouping as ServicesPage runs it, lies in the group with key '#'.
C3_PlaceholderUnderHash ==
  (pc = "rendered" /\ fetched = "ok" /\ Len(services) = Len(source)) =>
    \A i \in 1..Len(source) :
      Missing(source[i], "title") =>
        /\ services[i].title = Str(DefaultTitle)
        /\ InHashGroup(services[i], groupedServices)

\* 'service-' followed by the decimal id
Synthesized(id) == <<115, 101, 114, 118, 105, 99, 101, 45>> \o NumberToString(id)

PairwiseDistinct(f) == \A i, j \in DOMAIN f : i # j => f[i] # f[j]

DefaultedSlugs(svcs) ==
  \A i \in 1..Len(svcs) :
    Missing(source[i], "slug") => svcs[i].slug = Str(Synthesized(Get(source[i], "id")))

\* C4 as stated: a record without slug gets 'service-<id>', and a batch with
\* pairwise distinct ids has pairwise distinct slugs.
C4_SlugsUnique ==
  \A svcs \in Batches :
    /\ DefaultedSlugs(svcs)
    /\ PairwiseDistinct([i \in 1..Len(svcs) |-> svcs[i].id])
         => PairwiseDistinct([i \in 1..Len(svcs) |-> svcs[i].slug])

\* the slug the normalizer reads from the record is present
Explicit(r) == Truthy(Get(ServiceData(r), "slug"))

\* the explicit slugs differ from each other and from the slug synthesized
\* for any other record of the batch
NoSourceCollision(svcs) ==
  \A i, j \in 1..Len(svcs) :
    (i # j /\ Explicit(source[i])) =>
      IF Explicit(source[j])
      THEN Get(ServiceData(source[i]), "slug") # Get(ServiceData(source[j]), "slug")
      ELSE Get(ServiceData(source[i]), "slug") # Str(Synthesized(Get(source[j], "id")))

\* C4 (amended): a record without slug gets 'service-<id>', and a batch with
\* pairwise distinct ids has pairwise distinct slugs provided the explicit
\* slugs of the source differ from each other and from the slug synthesized
\* for any other record of the batch.
C4_SlugsUniqueAmended ==
  \A svcs \in Batches :
    /\ DefaultedSlugs(svcs)
    /\ (PairwiseDistinct([i \in 1..Len(svcs) |-> svcs[i].id]) /\ NoSourceCollision(svcs))
         => PairwiseDistinct([i \in 1..Len(svcs) |-> svcs[i].slug])

\* two records with distinct ids, one with an explicit slug and one without
C4_Witness ==
  /\ pc = "loaded" /\ fetched = "ok" /\ Len(services) = 2
  /\ services[1].id # services[2].id
  /\ Missing(source[1], "slug") /\ Explicit(source[2])
  /\ NoSourceCollision(services)
  /\ services[1].slug = Str(<<115, 101, 114, 118, 105, 99, 101, 45, 49>>)

\* C5: following the link of a listed service, with the content source
\* answering the slug filter, returns that service and not null.
C5_Addressable ==
  (pc = "detail" /\ detail.fetched = "ok") =>
    /\ ~detail.notFound
    /\ detail.service = source[linkIndex]

\* the field source the claim prescribes: the wrapper when present and
\* non-empty, the top level otherwise
ClaimedData(r) ==
  IF HasWrapper(r) /\ Get(r, "attributes").v # NoFields THEN Get(r, "attributes") ELSE r

\* C6: per record, the Service fields come from the attributes wrapper when
\* it is present and non-empty, and from the top level otherwise.
C6_FieldSource ==
  \A svcs \in Batches :
    \A i \in 1..Len(svcs) :
      LET d == ClaimedData(source[i])
      IN /\ svcs[i].title = OrElse(Get(d, "title"), Str(DefaultTitle))
         /\ svcs[i].description = OrElse(Get(d, "description"), Str(<<>>))
         /\ svcs[i].slug = OrElse(Get(d, "slug"), Str(Synthesized(Get(source[i], "id"))))
         /\ svcs[i].image = OrElse(Get(d, "image"), Arr(<<>>))

\* C7: every record of a delivered payload yields one Service, so that the
\* output is as long as the input and no error is reported.
C7_Total ==
  Delivered => (Len(services) = Len(source) /\ error = Null)

\* C8: the normalized image field is an array, the empty one whenever the
\* source value is not an array.
C8_ImagesArray ==
  \A svcs \in Batches :
    \A i \in 1..Len(svcs) :
      /\ svcs[i].image.t = "array"
      /\ Get(ServiceData(source[i]), "image").t # "array" => svcs[i].image = Arr(<<>>)

\* a flat record of the canonical Service shape, all fields present and non-empty
Canonical(r) ==
  /\ r.t = "object"
  /\ Get(r, "attributes") = Undef
  /\ \A f \in {"title", "description", "slug"} : Get(r, f).t = "string" /\ Get(r, f).v # <<>>
  /\ Get(r, "image").t = "array" /\ Get(r, "image").v # <<>>

\* a Service read as a flat record
AsRecord(x) ==
  Obj([id |-> x.id, attributes |-> Undef, title |-> x.title,
       description |-> x.description, slug |-> x.slug, image |-> x.image])

\* C9: normalizing a canonical flat record yields a Service equal to it, and
\* normalizing that Service again yields the same Service.
C9_Idempotent ==
  \A svcs \in Batches :
    \A i \in 1..Len(svcs) :
      Canonical(source[i]) =>
        /\ AsRecord(svcs[i]) = source[i]
        /\ normalizeItem(AsRecord(svcs[i])) = svcs[i]

\* a canonical record went through getAllServices
C9_Witness ==
  /\ pc = "loaded" /\ fetched = "ok"
  /\ Len(services) = 1
  /\ Canonical(source[1])
  /\ services[1].title = Str(<<66>>)
  /\ services[1].image = Arr(<<Asset>>)

\* the input restricted to the members of one group, in input order
InputOrderOf(members) == SelectSeq(services, LAMBDA x : x \in Range(members))

\* C11: within every group the members keep the relative order they had in
\* the input sequence.
C11_StableOrder ==
  pc = "grouped" =>
    \A g \in 1..Len(groupedServices) :
      groupedServices[g].services = InputOrderOf(groupedServices[g].services)

\* two different services of one group, separated in the input by a service
\* of another group
C11_Witness ==
  /\ pc = "grouped"
  /\ Len(services) = 3
  /\ \E g \in 1..Len(groupedServices) :
       /\ groupedServices[g].services = <<services[1], services[3]>>
       /\ services[1] # services[3]

\* C12: renderRichText returns the empty result, without raising, for null,
\* undefined and every value that is not a sequence.
C12_EmptyForNonSequence ==
  (dpc = "rich-done" /\ content.t # "array") => richText = Null

\* a truthy value that is not a sequence was rendered
C12_Witness ==
  /\ dpc = "rich-done"
  /\ content.t \in {"string", "object", "boolean"}
  /\ Truthy(content)
  /\ richText = Null

\* a sequence of blocks as the data model describes them: every block an
\* object, every paragraph with a sequence of runs
IsParagraph(block) == Get(block, "type") = Str(<<112, 97, 114, 97, 103, 114, 97, 112, 104>>)

WellFormed(c) ==
  /\ c.t = "array"
  /\ \A i \in 1..Len(c.v) :
       /\ c.v[i].t = "object"
       /\ IsParagraph(c.v[i]) =>
            /\ Get(c.v[i], "children").t = "array"
            /\ \A j \in 1..Len(Get(c.v[i], "children").v) :
                 Get(c.v[i], "children").v[j].t = "object"

\* the positions of the paragraph blocks, ascending
ParagraphPositions(c) ==
  SelectSeq([i \in 1..Len(c.v) |-> i], LAMBDA i : IsParagraph(c.v[i]))

\* C13: one paragraph node per block of type paragraph, in input order, and
\* neither a node nor an error for a block of any other type.
C13_OneNodePerParagraph ==
  (dpc = "rich-done" /\ WellFormed(content)) =>
    /\ richText # Thrown
    /\ richText # Null
    /\ LET nodes == Nodes(richText)
           at == ParagraphPositions(content)
       IN /\ Len(nodes) = Len(at)
          /\ \A n \in 1..Len(nodes) : nodes[n].tag = "p" /\ nodes[n].key = at[n] - 1

\* a block without children field between two paragraphs
C13_Witness ==
  /\ dpc = "rich-done"
  /\ WellFormed(content)
  /\ Len(content.v) = 2
  /\ ~IsParagraph(content.v[1]) /\ Get(content.v[1], "children") = Undef
  /\ IsParagraph(content.v[2])
  /\ Len(Nodes(richText)) = 1

\* the inline node the claim prescribes for a run
ClaimedInline(run, k) ==
  LET text == Get(run, "text")
      bold == Truthy(Get(run, "bold"))
      italic == Truthy(Get(run, "italic"))
  IN IF bold /\ italic THEN Element("strong", k, <<Element("em", k, <<text>>)>>)
     ELSE IF bold THEN Element("strong", k, <<text>>)
     ELSE IF italic THEN Element("em", k, <<text>>)
     ELSE Element("span", k, <<text>>)

\* C14: within a paragraph one inline node per run, in order, empty runs
\* included, wrapped as the flags say: bold and italic give a bold node
\* holding an italic node, one flag gives that wrapping, none gives plain text.
C14_InlineWrapping ==
  (dpc = "rich-done" /\ WellFormed(content)) =>
    \A n \in 1..Len(Nodes(richText)) :
      LET node == Nodes(richText)[n]
          runs == Get(content.v[node.key + 1], "children").v
      IN /\ Len(node.children) = Len(runs)
         /\ \A j \in 1..Len(runs) : node.children[j] = ClaimedInline(runs[j], j - 1)

\* the asset has the requested variant, with a non-empty URL
HasVariant(a, size) ==
  /\ a.formats.t = "object"
  /\ a.formats.v[size].t = "object"
  /\ a.formats.v[size].v.url.t = "string"
  /\ a.formats.v[size].v.url.v # <<>>

\* 'https://startrixbot.ru', 'undefined'
SiteHost == <<104, 116, 116, 112, 115, 58, 47, 47, 115, 116, 97, 114, 116, 114, 105, 120, 98, 111, 116, 46, 114, 117>>
UndefinedText == <<117, 110, 100, 101, 102, 105, 110, 101, 100>>

\* C15: the display URL of a variant is the variant's URL when the variant
\* exists with a non-empty URL and the base URL otherwise; with a base URL
\* present the path is never undefined or empty, also without formats.
C15_VariantOrBase ==
  dpc = "image-done" =>
    /\ HasVariant(asset, variant) => src = SiteHost \o asset.formats.v[variant].v.url.v
    /\ (~HasVariant(asset, variant) /\ asset.url.t = "string") => src = SiteHost \o asset.url.v
    /\ (asset.url.t = "string" /\ asset.url.v # <<>>) =>
         src \notin {SiteHost, SiteHost \o UndefinedText}

\* the fallback to the base URL for a variant whose URL is empty, beside
\* another variant that has one
C15_Witness ==
  /\ dpc = "image-done"
  /\ asset.url = Str(<<47, 105>>)
  /\ src = SiteHost \o <<47, 105>>
  /\ asset.formats.t = "object"
  /\ asset.formats.v[variant] = Obj([url |-> Str(<<>>)])
  /\ \E other \in Variants : HasVariant(asset, other)

PriceFields == <<"name", "description", "unit", "duration">>

\* the cell the claim prescribes for a field value
ClaimedCell(x) == IF x.t = "string" /\ x.v # <<>> THEN x ELSE Str(<<45>>)

\* every entry of the list has a row whose four cells are as claimed
RowsAsClaimed(list, table) ==
  /\ table.t = "array"
  /\ Len(table.v) = Len(list.v)
  /\ \A i \in 1..Len(list.v) :
       \A f \in 1..4 :
         table.v[i].cells[f] = ClaimedCell(Get(list.v[i], PriceFields[f]))

\* C16 as stated: every entry of a price list is rendered with the dash in
\* each empty or absent field and the value in each other field.
C16_DashForEmpty ==
  (dpc = "price-done" /\ price_list.t = "array" /\ Len(price_list.v) > 0) =>
    RowsAsClaimed(price_list, priceTable)

\* the first entry of the list has a non-empty name
FirstNamed(list) ==
  /\ list.t = "array"
  /\ Len(list.v) > 0
  /\ Get(list.v[1], "name").t = "string"
  /\ Get(list.v[1], "name").v # <<>>

\* C16 (amended): when the price table is rendered, that is when the list is
\* non-empty and its first entry has a non-empty name, every entry has a row
\* with the dash in each empty or absent field and the value in each other.
C16_DashForEmptyAmended ==
  (dpc = "price-done" /\ FirstNamed(price_list)) => RowsAsClaimed(price_list, priceTable)

\* a rendered table whose second row has a dash for an empty name and for an
\* absent duration, beside a value
C16_Witness ==
  /\ dpc = "price-done"
  /\ FirstNamed(price_list)
  /\ Len(price_list.v) = 2
  /\ Get(price_list.v[2], "name") = Str(<<>>)
  /\ priceTable.v[2].cells = <<Str(<<45>>), Str(<<120>>), Str(<<120>>), Str(<<45>>)>>

\* C17: when the fetch throws or the status is not a success, getAllServices
\* returns no service and a non-null error message; grouping yields no group
\* and the page shows the error message, not the empty-list message nor any
\* service.
C17_FetchFailure ==
  (pc \in {"loaded", "rendered", "detail"} /\ fetched \in {"throw", "notok"}) =>
    /\ services = <<>>
    /\ error.t = "string" /\ error.v # <<>>
    /\ pc \in {"rendered", "detail"} =>
         /\ groupedServices = <<>>
         /\ view = "error"
         /\ message = error.v
         /\ grid = <<>>

\* the page was rendered after a response with a failure status
C17_Witness ==
  /\ pc = "rendered"
  /\ fetched = "notok"
  /\ Len(source) = 2
  /\ view = "error"
  /\ message # <<>>

\* C19: the grid view shows the normalized services in the order the content
\* source returned them, none dropped, duplicated or moved.
C19_GridOrder ==
  (pc \in {"rendered", "detail"} /\ view = "list") =>
    /\ Len(grid) = Len(source)
    /\ \A i \in 1..Len(source) :
         /\ source[i].t = "object"
         /\ grid[i].key = Get(source[i], "id")
         /\ grid[i] = Card(normalizeItem(source[i]))

\* two services shown in source order although their ids and their titles
\* descend
C19_Witness ==
  /\ pc = "rendered"
  /\ view = "list"
  /\ Len(grid) = 2
  /\ grid[1].key = 2 /\ grid[2].key = 1
  /\ grid[1].title = Str(<<66>>)
  /\ grid[2].title = Str(<<1041, 1077, 1079, 32, 1085, 1072, 1079, 1074, 1072, 1085, 1080, 1103>>)
  /\ grid[1].href # grid[2].href

\* the theme the document shows
Applied(class, attribute, theme) == class = (theme = "dark") /\ attribute = theme

\* C18: the page load that follows any sequence of clicks applies the theme
\* of the last click, whatever the system preference is; without a stored
\* preference it applies the system preference.
C18_ThemePersists ==
  [][(tpc = "scripted" /\ tpc' = "mounted") =>
       /\ lastClick' # "none" =>
            Applied(darkTheme', dataTheme', lastClick') /\ isDarkMode' = (lastClick' = "dark")
       /\ savedTheme' = "none" =>
            Applied(darkTheme', dataTheme', IF prefersDark' THEN "dark" ELSE "light")]_vars

\* a second page load has applied the light theme of the last click against
\* a dark system preference
C18_Witness ==
  /\ tpc = "mounted"
  /\ loads = 2
  /\ clicks > 0
  /\ lastClick = "light"
  /\ prefersDark
  /\ ~darkTheme /\ dataTheme = "light"

\* C20: after the mount effect and any sequence of toggleTheme calls the
\* mirrors agree: isDarkMode, the dark-theme class, data-theme = 'dark' and,
\* once a toggle has happened, localStorage theme = 'dark'; the theme is one
\* of light and dark.
C20_MirrorsAgree ==
  tpc = "mounted" =>
    /\ isDarkMode = darkTheme
    /\ darkTheme = (dataTheme = "dark")
    /\ dataTheme \in {"light", "dark"}
    /\ clicks > 0 => (savedTheme \in {"light", "dark"} /\ isDarkMode = (savedTheme = "dark"))

\* two clicks were served by the closure of the first render, which still saw
\* the light mode after the mount effect had set the dark mode
C20_Witness ==
  /\ tpc = "mounted"
  /\ loads = 1
  /\ clicks = 2
  /\ ~renderedDark
  /\ isDarkMode
  /\ savedTheme = "dark"

\* C21: with the ThemeToggle that flips the dark class, after the mount
\* effect and any sequence of toggleTheme calls, two calls from the closure
\* of one render included, the document element has the class dark iff the
\* last value passed to setIsDarkMode is true, and, once a toggle has written
\* it, iff localStorage theme is 'dark'.
C21_FlipMirrorsAgree ==
  tpc = "mounted" =>
    /\ darkClass = isDarkMode
    /\ clicks > 0 => darkClass = (savedTheme = "dark")

\* C22: the price table is rendered iff the price list is non-empty and its
\* first entry has a non-empty name; a rendered table has one row per entry
\* of the list, whatever the other entries hold, and no entry has a row when
\* the first entry is not named.
C22_TableGate ==
  dpc = "price-done" =>
    /\ (priceTable # Null) <=> FirstNamed(price_list)
    /\ priceTable # Null =>
         /\ Len(priceTable.v) = Len(price_list.v)
         /\ \A i \in 1..Len(price_list.v) : priceTable.v[i].key = Get(price_list.v[i], "id")

\* no table for a list of two entries whose second entry is named and whose
\* first entry has an empty name
C22_Witness ==
  /\ dpc = "price-done"
  /\ price_list.t = "array"
  /\ Len(price_list.v) = 2
  /\ Get(price_list.v[1], "name") = Str(<<>>)
  /\ Get(price_list.v[2], "name") = Str(<<120>>)
  /\ priceTable = Null

\* the positions of the source records that store the slug of the followed link
Sharing(records, link) ==
  {k \in 1..Len(records) : StoredSlug(records[k]) = link}

Least(S) == CHOOSE k \in S : \A j \in S : k <= j

\* C23: getServiceBySlug returns null exactly when the fetch throws, the
\* status is not a success or no source record stores the slug, and
\* ServicePage then signals not-found; otherwise it returns the first of the
\* source records that store the slug, and that one is displayed.
C23_NullOrFirst ==
  pc = "detail" =>
    LET sharing == Sharing(source, services[linkIndex].slug)
    IN /\ (detail.service = Null) <=>
            (detail.fetched \in {"throw", "notok"} \/ sharing = {})
       /\ detail.notFound <=> (detail.service = Null)
       /\ detail.service # Null => detail.service = source[Least(sharing)]

\* the link of the second of two distinct records that store the same slug
\* was followed and the first record is displayed
C23_Witness ==
  /\ pc = "detail"
  /\ detail.fetched = "ok"
  /\ Len(source) = 2
  /\ source[1] # source[2]
  /\ linkIndex = 2
  /\ Sharing(source, services[2].slug) = {1, 2}
  /\ detail.service = source[1]
  /\ ~detail.notFound

====
